---- MODULE Spec2Model ----
(***************************************************************************)
(* State-machine model of the LightRAG console front end:                  *)
(*   - the Upload page (frontend/src/pages/Upload.tsx): prompt-variable    *)
(*     loading and sequential file / text ingestion;                       *)
(*   - the Visualize page (frontend/src/pages/Visualize.tsx): graph load,  *)
(*     regeneration and object-URL lifetime;                               *)
(*   - the ContextSelector component (frontend/src/components/Layout.tsx,  *)
(*     second half of the file): context list, creation, deletion.         *)
(*                                                                         *)
(* Every handler runs to its next await as one atomic step (the browser    *)
(* event loop is single threaded); every fetch is an in-flight request     *)
(* whose response is delivered by a later step, in any order.  An async    *)
(* handler keeps the values of the render it was started in (its closure). *)
(***************************************************************************)
EXTENDS Naturals, Sequences, FiniteSets, TLC

(* ---------------- bounds of the model ---------------- *)
\* longest file list the user picks
MaxFiles == 2
\* longest text typed into the text box (characters)
MaxText == 1
\* most /get_prompt_variables requests in flight at once
MaxVarLoads == 2
\* most ingestion handlers running at once (one, when the buttons' loading
\* state is honoured; the bound only matters if it is not)
MaxRuns == 2
\* most /visualize requests in flight at once
MaxGraphLoads == 2
\* most object URLs minted by one Visualize instance
MaxUrls == 3
\* most POST /contexts requests of one session
MaxCreates == 1
\* most DELETE /contexts requests in flight at once
MaxDeletes == 2
\* most POST /update_prompt requests of one session
MaxUpdates == 1
\* most POST /query requests of one session
MaxQueries == 3
\* longest tag buffer handleAddTag is applied to apart from the edited one
MaxBuffer == 2
\* GET /generated_files/{ctx} requests in flight at once
MaxListLoads == 2
\* GET /generated_files/{ctx}/{file} requests in flight at once
MaxFileLoads == 2

(* ---------------- values ---------------- *)
\* JavaScript null for a string-valued state
NULL == "null"
\* JavaScript null / absent for an object-valued state: the empty option
None == <<>>
Some(v) == <<v>>

Contexts == {"ctxA", "ctxB"}
\* the names of the files of one directory: pairwise different
FileNames == {"file" \o ToString(k) : k \in 1..MaxFiles}
Chars == {" ", "x"}
\* error.message of a rejected fetch / of a body that is not JSON
ThrowMessages == {"Failed to fetch"}
\* data.detail of a non-2xx /insert_file answer
Details == {"bad file"}

RECURSIVE SeqsUpTo(_, _)
SeqsUpTo(S, n) ==
    IF n = 0 THEN {<<>>}
    ELSE LET shorter == SeqsUpTo(S, n - 1)
         IN  shorter \cup {Append(s, e) : s \in shorter, e \in S}

\* what a file input can hold: files of one directory, no name twice
FileLists ==
    {s \in SeqsUpTo(FileNames, MaxFiles) : \A p, q \in 1..Len(s) : p # q => s[p] # s[q]}
Texts == SeqsUpTo(Chars, MaxText)

\* String.prototype.trim on a string given as its sequence of characters
RECURSIVE TrimLeft(_)
TrimLeft(s) ==
    IF s # <<>> /\ Head(s) = " " THEN TrimLeft(Tail(s)) ELSE s
RECURSIVE TrimRight(_)
TrimRight(s) ==
    IF s # <<>> /\ s[Len(s)] = " " THEN TrimRight(SubSeq(s, 1, Len(s) - 1)) ELSE s
Trim(s) == TrimRight(TrimLeft(s))

Range(s) == {s[j] : j \in 1..Len(s)}
RemoveAt(s, k) == SubSeq(s, 1, k - 1) \o SubSeq(s, k + 1, Len(s))

(* ---------------- state ---------------- *)
VARIABLES
    \* ---- Upload page (Upload.tsx:58-71) ----
    text,              \* text box, a sequence of characters
    files,             \* None, or Some(list of file names) picked in the input
    message,           \* the alert text, a sequence of string pieces
    isError,
    loading,
    uploadProgress,    \* None, or Some([total, completed, currentFile])
    variableOptions,   \* the prompt variables shown
    selectedContext,   \* the Upload page's selected context id, or NULL
    \* ---- Upload page: requests ----
    runs,              \* running ingestion handlers, each with its closure
    batch,             \* history: the file list of the batch started last
    sent,              \* file names of the /insert_file requests of the batch, in order
    got,               \* outcomes of their responses, in order
    varLoads,          \* in-flight /get_prompt_variables requests (captured context)
    ownLoadDone        \* history: a load issued for the current selection was applied

upVars == <<text, files, message, isError, loading, uploadProgress,
            variableOptions, selectedContext, runs, batch, sent, got, varLoads, ownLoadDone>>

VARIABLES
    \* ---- Visualize page (Visualize.tsx:16-20) ----
    visLoading,
    visError,          \* NULL or the error text
    graphUrl,          \* 0 for null, or the object URL shown
    visSelectedContext,
    regenerating,
    \* ---- Visualize page: effect closure, requests, object URLs ----
    mounted,
    cleanupUrl,        \* graphUrl as seen by the cleanup the last effect run returned
    visLoads,          \* in-flight /visualize requests: [ctx, force]
    urlCtx,            \* urlCtx[u]: the context object URL u was fetched for; URLs are 1..Len(urlCtx)
    revoked            \* the object URLs passed to URL.revokeObjectURL

visVars == <<visLoading, visError, graphUrl, visSelectedContext, regenerating,
             mounted, cleanupUrl, visLoads, urlCtx, revoked>>

VARIABLES
    \* ---- ContextSelector (Layout.tsx:55-60) ----
    contexts,            \* the listed context ids, in order
    selSelectedContext,  \* the selector's own selectedContext
    pageSelectedContext, \* what the owning page was last told through onContextChange
    \* ---- ContextSelector: backend and requests ----
    backend,             \* the context ids the backend holds
    listLoad,            \* TRUE while the GET /contexts of the mount effect is in flight
    creates,             \* in-flight POST /contexts: [contexts (closure), n (which request)]
    deletes,             \* in-flight DELETE /contexts/{id}: [contexts, id (closure)]
    created,             \* how many POST /contexts requests were issued so far
    isCreateModalVisible,
    newContextName,      \* a sequence of characters
    selLoading,          \* the selector's loading flag
    lastConfirm          \* history: the last answer of window.confirm ("none" before)

selVars == <<contexts, selSelectedContext, pageSelectedContext, backend, listLoad,
             creates, deletes, created, isCreateModalVisible, newContextName,
             selLoading, lastConfirm>>

VARIABLES
    \* ---- Upload page: the prompt-variable editor (Upload.tsx:65-69) ----
    selectedVariable,  \* NULL, or the name of the variable chosen in the Select
    variableValue,     \* the scalar edit buffer, a sequence of string pieces
    tags,              \* the tag edit buffer, a sequence of tags
    newTagInput,       \* the "Type new tag" input
    \* ---- Upload page: backend, requests and history of the editor ----
    promptStore,       \* promptStore[c]: the prompt variables the backend holds for context c
    updates,           \* in-flight POST /update_prompt: [ctx, variable, value, type, seq]
    committed,         \* how many POST /update_prompt requests were issued so far
    updGot,            \* history: the request answered last and its outcome, or None
    bufferCtx,         \* history: the selection when the edit buffers were last seeded or edited
    editOp,            \* history: the last operation on the tag buffer and its input
    \* ---- Upload page: history of the text tab ----
    textGot            \* how the last /insert request ended ("none" before)

editorVars == <<selectedVariable, variableValue, tags, newTagInput, promptStore, updates,
                committed, updGot, bufferCtx, editOp>>
editVars == <<editorVars, textGot>>

VARIABLES
    \* ---- Chat page (Navigation.tsx:345-350) ----
    query,             \* the question input, a sequence of characters
    responses,         \* None, or Some(the data object of a /query answer)
    chatLoading,
    chatError,         \* NULL or the error text
    chatSelectedContext,
    \* ---- Chat page: requests and history ----
    queries,           \* in-flight POST /query: [ctx, query]
    asked,             \* how many POST /query requests were issued so far
    chatGot            \* history: outcomes of the answered /query requests, in order

chatVars == <<query, responses, chatLoading, chatError, chatSelectedContext,
              queries, asked, chatGot>>

VARIABLES
    \* ---- GeneratedContents page (Navigation.tsx:140-145) ----
    genSelectedContext,
    availableFiles,    \* the file names of the last list answer
    fileContents,      \* file name -> None, or Some([ctx, content]): the content cached
                       \* under the name and the context whose path it was fetched from
    loadingFile,       \* NULL or the file name a spinner is shown for
    genError,          \* NULL or the error text
    activeTabId,
    \* ---- GeneratedContents page: requests ----
    listReqs,          \* in-flight GET /generated_files/{ctx}: the ctx of each
    fileReqs           \* in-flight GET /generated_files/{ctx}/{file}: [ctx, file]

genVars == <<genSelectedContext, availableFiles, fileContents, loadingFile, genError,
             activeTabId, listReqs, fileReqs>>

vars == <<upVars, editVars, visVars, selVars, chatVars, genVars>>

(* ======================= Upload page ======================= *)

\* what the backend holds for a context nobody has edited yet: every context has
\* its own values (a string is the sequence of its pieces, a tag list a sequence of strings)
InitialPromptValues(c) == [entity_types |-> << <<c>> >>, language |-> <<c>>]

\* GET /get_prompt_variables?context_id=c
BackendVars(c) ==
    << [name |-> "entity_types", type |-> "array",  currentValue |-> promptStore[c].entity_types],
       [name |-> "language",     type |-> "string", currentValue |-> promptStore[c].language] >>

InitUpload ==
    /\ text = <<>>
    /\ files = None
    /\ message = <<>>
    /\ isError = FALSE
    /\ loading = FALSE
    /\ uploadProgress = None
    /\ variableOptions = <<>>
    /\ selectedContext = NULL
    /\ runs = <<>>
    /\ batch = <<>>
    /\ sent = <<>>
    /\ got = <<>>
    /\ varLoads = <<>>
    /\ ownLoadDone = FALSE

\* <ContextSelector onContextChange={setSelectedContext}/> and the effect on
\* [selectedContext]: a changed, non-null selection starts fetchVariables.
UploadOnContextChange(c) ==
    /\ c # selectedContext
    /\ selectedContext' = c
    /\ ownLoadDone' = FALSE
    /\ IF c # NULL
       THEN /\ Len(varLoads) < MaxVarLoads
            /\ varLoads' = Append(varLoads, c)
       ELSE varLoads' = varLoads
    /\ UNCHANGED <<text, files, message, isError, loading, uploadProgress,
                   variableOptions, runs, batch, sent, got>>
    /\ UNCHANGED <<editVars, visVars, selVars, chatVars, genVars>>

\* fetchVariables after its await: the response of request k is applied
FetchVariablesApply(k) ==
    /\ variableOptions' = BackendVars(varLoads[k])
    /\ ownLoadDone' = (ownLoadDone \/ varLoads[k] = selectedContext)
    /\ UNCHANGED <<message, isError>>

FetchVariablesOk(k) ==
    /\ k \in 1..Len(varLoads)
    /\ FetchVariablesApply(k)
    /\ varLoads' = RemoveAt(varLoads, k)
    /\ UNCHANGED <<text, files, loading, uploadProgress, selectedContext, runs, batch, sent, got>>
    /\ UNCHANGED <<editVars, visVars, selVars, chatVars, genVars>>

FetchVariablesThrow(k) ==
    /\ k \in 1..Len(varLoads)
    /\ message' = <<"Error loading prompt variables">>
    /\ isError' = TRUE
    /\ varLoads' = RemoveAt(varLoads, k)
    /\ UNCHANGED <<text, files, loading, uploadProgress, variableOptions,
                   selectedContext, runs, batch, sent, got, ownLoadDone>>
    /\ UNCHANGED <<editVars, visVars, selVars, chatVars, genVars>>

\* <Textarea onChange={setText} disabled={!selectedContext}/>
SetText(t) ==
    /\ selectedContext # NULL
    /\ t # text
    /\ text' = t
    /\ UNCHANGED <<files, message, isError, loading, uploadProgress, variableOptions,
                   selectedContext, runs, batch, sent, got, varLoads, ownLoadDone>>
    /\ UNCHANGED <<editVars, visVars, selVars, chatVars, genVars>>

\* <input type="file" onChange={e => setFiles(e.target.files)} disabled={!selectedContext}/>
SetFiles(fs) ==
    /\ selectedContext # NULL
    /\ files # Some(fs)
    /\ files' = Some(fs)
    /\ UNCHANGED <<text, message, isError, loading, uploadProgress, variableOptions,
                   selectedContext, runs, batch, sent, got, varLoads, ownLoadDone>>
    /\ UNCHANGED <<editVars, visVars, selVars, chatVars, genVars>>

\* Faulty variant: the upload buttons stay clickable while loading
UploadButtonsNeverIgnoreClicks == FALSE

\* a Button with loading={loading} does not deliver clicks
UploadButtonsIgnoreClicks == loading

\* Faulty variant: completed counts the file about to be sent as done
ProgressUpdateCountsSent(prev, fs, k) ==
    Some([ total       |-> IF prev # None /\ prev[1].total # 0
                           THEN prev[1].total ELSE Len(fs),
           completed   |-> k,
           currentFile |-> fs[k] ])

\* setUploadProgress(prev => ({total: prev?.total || files.length, completed: i, currentFile}))
\* with i the 0-based index of the file about to be sent (k is 1-based here)
ProgressUpdate(prev, fs, k) ==
    Some([ total       |-> IF prev # None /\ prev[1].total # 0
                           THEN prev[1].total ELSE Len(fs),
           completed   |-> k - 1,
           currentFile |-> fs[k] ])

\* the handler's first segment: guard, setLoading, setUploadProgress, first iteration
HandleFileUploadStart ==
    /\ ~UploadButtonsIgnoreClicks
    /\ files # None /\ Len(files[1]) # 0 /\ selectedContext # NULL
    /\ Len(runs) < MaxRuns
    /\ LET fs == files[1]
           first == Some([total |-> Len(fs), completed |-> 0, currentFile |-> fs[1]])
       IN  /\ loading' = TRUE
           /\ uploadProgress' = ProgressUpdate(first, fs, 1)
           /\ runs' = Append(runs, [kind |-> "file", ctx |-> selectedContext,
                                    files |-> fs, i |-> 1])
           /\ batch' = fs
           /\ sent' = <<fs[1]>>
           /\ got' = <<>>
    /\ UNCHANGED <<text, files, message, isError, variableOptions, selectedContext,
                   varLoads, ownLoadDone>>
    /\ UNCHANGED <<editVars, visVars, selVars, chatVars, genVars>>

\* Faulty variant: the handler ends without clearing the progress
FileUploadEndsWithoutReset(r) ==
    /\ loading' = FALSE
    /\ uploadProgress' = uploadProgress
    /\ runs' = RemoveAt(runs, r)

\* the finally block
FileUploadFinally(r) ==
    /\ loading' = FALSE
    /\ uploadProgress' = None
    /\ runs' = RemoveAt(runs, r)

\* which file the loop sends after the response for file i was ok
NextFileIndex(i) == i + 1

\* response.ok: the loop goes on to the next file, or ends in the success message
HandleFileUploadOk(r) ==
    /\ r \in 1..Len(runs) /\ runs[r].kind = "file"
    /\ LET run == runs[r]
           n == NextFileIndex(run.i)
       IN  /\ got' = Append(got, "ok")
           /\ IF n <= Len(run.files)
              THEN /\ uploadProgress' = ProgressUpdate(uploadProgress, run.files, n)
                   /\ runs' = [runs EXCEPT ![r].i = n]
                   /\ sent' = Append(sent, run.files[n])
                   /\ UNCHANGED <<files, message, isError, loading>>
              ELSE /\ message' = <<"Successfully uploaded ", ToString(Len(run.files)), " files">>
                   /\ isError' = FALSE
                   /\ files' = None
                   /\ FileUploadFinally(r)
                   /\ sent' = sent
    /\ UNCHANGED <<text, variableOptions, selectedContext, batch, varLoads, ownLoadDone>>
    /\ UNCHANGED <<editVars, visVars, selVars, chatVars, genVars>>

\* Faulty variant: the error does not say which file failed
FailedUploadGenericMessage(name, detail) == <<"Error uploading files: ", detail>>

\* throw new Error(`Failed to upload ${file.name}: ${data.detail}`)
FailedUploadMessage(name, detail) == <<"Failed to upload ", name, ": ", detail>>

\* !response.ok with a JSON body: throw, catch, finally
HandleFileUploadNotOk(r, detail) ==
    /\ r \in 1..Len(runs) /\ runs[r].kind = "file"
    /\ got' = Append(got, "notok")
    /\ message' = FailedUploadMessage(runs[r].files[runs[r].i], detail)
    /\ isError' = TRUE
    /\ FileUploadFinally(r)
    /\ UNCHANGED <<text, files, variableOptions, selectedContext, batch, sent, varLoads, ownLoadDone>>
    /\ UNCHANGED <<editVars, visVars, selVars, chatVars, genVars>>

\* fetch rejects, or response.json() rejects: catch, finally
HandleFileUploadThrow(r, m) ==
    /\ r \in 1..Len(runs) /\ runs[r].kind = "file"
    /\ got' = Append(got, "throw")
    /\ message' = <<m>>
    /\ isError' = TRUE
    /\ FileUploadFinally(r)
    /\ UNCHANGED <<text, files, variableOptions, selectedContext, batch, sent, varLoads, ownLoadDone>>
    /\ UNCHANGED <<editVars, visVars, selVars, chatVars, genVars>>

\* handleTextUpload up to its await
HandleTextUploadStart ==
    /\ ~UploadButtonsIgnoreClicks
    /\ Trim(text) # <<>> /\ selectedContext # NULL
    /\ Len(runs) < MaxRuns
    /\ loading' = TRUE
    /\ runs' = Append(runs, [kind |-> "text", ctx |-> selectedContext, files |-> <<>>, i |-> 0])
    /\ UNCHANGED <<text, files, message, isError, uploadProgress, variableOptions,
                   selectedContext, batch, sent, got, varLoads, ownLoadDone>>
    /\ UNCHANGED <<editVars, visVars, selVars, chatVars, genVars>>

\* handleTextUpload after its await: any JSON answer a (response.ok is not looked at)
HandleTextUploadAnswer(r, a) ==
    /\ r \in 1..Len(runs) /\ runs[r].kind = "text"
    /\ message' = <<a.message>>
    /\ textGot' = IF a.ok THEN "accepted" ELSE "refused"
    /\ isError' = FALSE
    /\ text' = <<>>
    /\ loading' = FALSE
    /\ runs' = RemoveAt(runs, r)
    /\ UNCHANGED <<files, uploadProgress, variableOptions, selectedContext, batch, sent, got,
                   varLoads, ownLoadDone>>
    /\ UNCHANGED <<editorVars, visVars, selVars, chatVars, genVars>>

\* fetch rejects, or response.json() rejects
HandleTextUploadThrow(r) ==
    /\ r \in 1..Len(runs) /\ runs[r].kind = "text"
    /\ message' = <<"Error uploading text">>
    /\ textGot' = "throw"
    /\ isError' = TRUE
    /\ loading' = FALSE
    /\ runs' = RemoveAt(runs, r)
    /\ UNCHANGED <<text, files, uploadProgress, variableOptions, selectedContext, batch, sent, got,
                   varLoads, ownLoadDone>>
    /\ UNCHANGED <<editorVars, visVars, selVars, chatVars, genVars>>

\* the JSON answers of POST /insert: 2xx with {message}, or non-2xx with {detail}
\* (data.message of a body without message is undefined)
TextAnswers == {[ok |-> TRUE, message |-> "Text inserted"],
                [ok |-> FALSE, message |-> "undefined"]}

(* ======================= Upload page: prompt-variable editor ======================= *)

\* what the user types into the "Type new tag" input: blank, padded, and two
\* texts that differ in case only
TagTexts == {<<>>, <<" ">>, <<"x">>, <<"X">>, <<" ", "x">>, <<"x", " ">>}
\* errorData.detail of a non-2xx /update_prompt answer; "undefined" when the body has none
UpdateDetails == {"bad value", "undefined"}

InitEditor ==
    /\ selectedVariable = NULL
    /\ variableValue = <<>>
    /\ tags = <<>>
    /\ newTagInput = <<>>
    /\ promptStore = [c \in Contexts |-> InitialPromptValues(c)]
    /\ updates = <<>>
    /\ committed = 0
    /\ updGot = None
    /\ bufferCtx = NULL
    /\ editOp = [op |-> "none", input |-> <<>>]
    /\ textGot = "none"

\* variableOptions.find(v => v.name === name): the first match, or undefined
FindVariable(options, name) ==
    LET hits == {j \in 1..Len(options) : options[j].name = name}
    IN  IF hits = {} THEN None
        ELSE Some(options[CHOOSE j \in hits : \A h \in hits : j <= h])

\* the variable the editor works on, as the render sees it
CurrentVariable ==
    IF selectedVariable = NULL THEN None ELSE FindVariable(variableOptions, selectedVariable)

\* selectedVariable && variableOptions.find(...)?.type === 'array' : the tag editor
\* is rendered, otherwise the "New Value" textarea is
TagEditorShown == CurrentVariable # None /\ CurrentVariable[1].type = "array"

\* the Select's onChange (disabled without a context) and the effect on
\* [selectedVariable]: the buffers are seeded from the local variable list
SelectVariable(name) ==
    /\ selectedContext # NULL
    /\ FindVariable(variableOptions, name) # None
    /\ LET variable == FindVariable(variableOptions, name)[1]
       IN  /\ selectedVariable' = name
           /\ IF variable.type = "array"
              THEN /\ tags' = variable.currentValue
                   /\ variableValue' = <<>>
              ELSE /\ variableValue' = variable.currentValue
                   /\ tags' = <<>>
    /\ bufferCtx' = selectedContext
    /\ editOp' = [op |-> "seed", input |-> <<>>]
    /\ UNCHANGED <<newTagInput, promptStore, updates, committed, updGot, textGot>>
    /\ UNCHANGED <<upVars, visVars, selVars, chatVars, genVars>>

\* the "New Value" textarea
SetVariableValue(t) ==
    /\ ~TagEditorShown
    /\ t # variableValue
    /\ variableValue' = t
    /\ bufferCtx' = selectedContext
    /\ UNCHANGED <<selectedVariable, tags, newTagInput, promptStore, updates, committed,
                   updGot, editOp, textGot>>
    /\ UNCHANGED <<upVars, visVars, selVars, chatVars, genVars>>

\* the "Type new tag" input
SetNewTagInput(t) ==
    /\ TagEditorShown
    /\ t # newTagInput
    /\ newTagInput' = t
    /\ editOp' = [op |-> "type", input |-> t]
    /\ UNCHANGED <<selectedVariable, variableValue, tags, promptStore, updates, committed,
                   updGot, bufferCtx, textGot>>
    /\ UNCHANGED <<upVars, visVars, selVars, chatVars, genVars>>

\* tags.includes(tag): strict equality of strings
Includes(buffer, tag) == \E j \in 1..Len(buffer) : buffer[j] = tag

\* Faulty variant: the text is appended as typed
AddTagUntrimmed(buffer, newTag) ==
    IF Trim(newTag) # <<>> /\ ~Includes(buffer, Trim(newTag))
    THEN Append(buffer, newTag)
    ELSE buffer

\* handleAddTag: if (newTag.trim() && !tags.includes(newTag.trim())) setTags([...tags, newTag.trim()])
AddTag(buffer, newTag) ==
    IF Trim(newTag) # <<>> /\ ~Includes(buffer, Trim(newTag))
    THEN Append(buffer, Trim(newTag))
    ELSE buffer

\* the Add Tag button (disabled for a blank input) or Enter in the input (ignored
\* for a blank input): handleAddTag(newTagInput)
HandleAddTag ==
    /\ TagEditorShown
    /\ Trim(newTagInput) # <<>>
    /\ tags' = AddTag(tags, newTagInput)
    /\ newTagInput' = <<>>
    /\ bufferCtx' = selectedContext
    /\ editOp' = [op |-> "add", input |-> newTagInput]
    /\ UNCHANGED <<selectedVariable, variableValue, promptStore, updates, committed,
                   updGot, textGot>>
    /\ UNCHANGED <<upVars, visVars, selVars, chatVars, genVars>>

\* the close button of the tag at (1-based) position index:
\* setTags(tags.filter((_, i) => i !== index))
RemoveTag(index) ==
    /\ TagEditorShown
    /\ index \in 1..Len(tags)
    /\ tags' = RemoveAt(tags, index)
    /\ bufferCtx' = selectedContext
    /\ editOp' = [op |-> "remove", input |-> <<>>]
    /\ UNCHANGED <<selectedVariable, variableValue, newTagInput, promptStore, updates,
                   committed, updGot, textGot>>
    /\ UNCHANGED <<upVars, visVars, selVars, chatVars, genVars>>

\* the Update Variable button (disabled without context, without variable, with
\* an empty buffer) and handleVariableChange up to its await
HandleVariableChangeStart ==
    /\ selectedContext # NULL /\ selectedVariable # NULL
    /\ CurrentVariable # None
    /\ IF TagEditorShown THEN tags # <<>> ELSE Trim(variableValue) # <<>>
    /\ committed < MaxUpdates
    /\ committed' = committed + 1
    /\ updates' = Append(updates,
                    [ctx      |-> selectedContext,
                     variable |-> selectedVariable,
                     value    |-> IF TagEditorShown THEN tags ELSE variableValue,
                     type     |-> CurrentVariable[1].type])
    /\ UNCHANGED <<selectedVariable, variableValue, tags, newTagInput, promptStore,
                   updGot, bufferCtx, editOp, textGot>>
    /\ UNCHANGED <<upVars, visVars, selVars, chatVars, genVars>>

\* what the catch block of handleVariableChange does to the edit: nothing
CommitFailureKeepsEdit == UNCHANGED <<selectedVariable, variableValue, tags>>

\* response.ok: setMessage(data.message), setIsError(false); the backend stored the value
UpdateOk(k) ==
    /\ k \in 1..Len(updates)
    /\ LET u == updates[k]
       IN  /\ promptStore' = [promptStore EXCEPT ![u.ctx][u.variable] = u.value]
           /\ updGot' = Some([outcome |-> "ok", req |-> u])
    /\ message' = <<"Variable updated">>
    /\ isError' = FALSE
    /\ updates' = RemoveAt(updates, k)
    /\ UNCHANGED <<selectedVariable, variableValue, tags, newTagInput, committed,
                   bufferCtx, editOp, textGot>>
    /\ UNCHANGED <<text, files, loading, uploadProgress, variableOptions, selectedContext,
                   runs, batch, sent, got, varLoads, ownLoadDone>>
    /\ UNCHANGED <<visVars, selVars, chatVars, genVars>>

\* errorData.detail || 'Failed to update variable'
UpdateErrorMessage(detail) ==
    IF detail = "undefined" THEN "Failed to update variable" ELSE detail

\* !response.ok with a JSON body: throw new Error(...), catch
UpdateNotOk(k, detail) ==
    /\ k \in 1..Len(updates)
    /\ updGot' = Some([outcome |-> "notok", req |-> updates[k]])
    /\ message' = <<UpdateErrorMessage(detail)>>
    /\ isError' = TRUE
    /\ updates' = RemoveAt(updates, k)
    /\ CommitFailureKeepsEdit
    /\ UNCHANGED <<newTagInput, promptStore, committed, bufferCtx, editOp, textGot>>
    /\ UNCHANGED <<text, files, loading, uploadProgress, variableOptions, selectedContext,
                   runs, batch, sent, got, varLoads, ownLoadDone>>
    /\ UNCHANGED <<visVars, selVars, chatVars, genVars>>

\* fetch or response.json() rejects with an Error m: setMessage(error.message)
UpdateThrow(k, m) ==
    /\ k \in 1..Len(updates)
    /\ updGot' = Some([outcome |-> "throw", req |-> updates[k]])
    /\ message' = <<m>>
    /\ isError' = TRUE
    /\ updates' = RemoveAt(updates, k)
    /\ CommitFailureKeepsEdit
    /\ UNCHANGED <<newTagInput, promptStore, committed, bufferCtx, editOp, textGot>>
    /\ UNCHANGED <<text, files, loading, uploadProgress, variableOptions, selectedContext,
                   runs, batch, sent, got, varLoads, ownLoadDone>>
    /\ UNCHANGED <<visVars, selVars, chatVars, genVars>>

(* ======================= Chat page ======================= *)

\* data.message of a /query answer whose status is not "success";
\* "undefined" when the body has none
QueryMessages == {"No documents indexed", "undefined"}

\* the data object of a "success" answer: the four mode outputs for (c, q)
QueryData(c, q) ==
    [naive |-> <<"naive", c, q>>, local |-> <<"local", c, q>>,
     global_ |-> <<"global", c, q>>, hybrid |-> <<"hybrid", c, q>>]

InitChat ==
    /\ query = <<>>
    /\ responses = None
    /\ chatLoading = FALSE
    /\ chatError = NULL
    /\ chatSelectedContext = NULL
    /\ queries = <<>>
    /\ asked = 0
    /\ chatGot = <<>>

\* <ContextSelector onContextChange={setSelectedContext}/>: Chat has no effect on it
ChatOnContextChange(c) ==
    /\ c # chatSelectedContext
    /\ chatSelectedContext' = c
    /\ UNCHANGED <<query, responses, chatLoading, chatError, queries, asked, chatGot>>
    /\ UNCHANGED <<upVars, editVars, visVars, selVars, genVars>>

\* the question input (disabled without a context)
SetQuery(t) ==
    /\ chatSelectedContext # NULL
    /\ t # query
    /\ query' = t
    /\ UNCHANGED <<responses, chatLoading, chatError, chatSelectedContext, queries, asked,
                   chatGot>>
    /\ UNCHANGED <<upVars, editVars, visVars, selVars, genVars>>

\* handleSubmit up to its await: guard, setLoading(true), setError(null), fetch
HandleSubmit ==
    /\ Trim(query) # <<>> /\ chatSelectedContext # NULL
    /\ asked < MaxQueries
    /\ asked' = asked + 1
    /\ chatLoading' = TRUE
    /\ chatError' = NULL
    /\ queries' = Append(queries, [ctx |-> chatSelectedContext, query |-> query])
    /\ UNCHANGED <<query, responses, chatSelectedContext, chatGot>>
    /\ UNCHANGED <<upVars, editVars, visVars, selVars, genVars>>

\* the Ask button: loading={loading}, disabled={!selectedContext || !query.trim()}
AskButtonClick ==
    /\ ~chatLoading
    /\ HandleSubmit

\* onKeyPress of the question input (disabled only without a context):
\* handleKeyPress calls handleSubmit on Enter
HandleKeyPress ==
    /\ chatSelectedContext # NULL
    /\ HandleSubmit

\* handleSubmit after its await, data.status === 'success': setResponses(data.data)
QuerySuccess(k) ==
    /\ k \in 1..Len(queries)
    /\ responses' = Some(QueryData(queries[k].ctx, queries[k].query))
    /\ chatLoading' = FALSE
    /\ queries' = RemoveAt(queries, k)
    /\ chatGot' = Append(chatGot, "success")
    /\ UNCHANGED <<query, chatError, chatSelectedContext, asked>>
    /\ UNCHANGED <<upVars, editVars, visVars, selVars, genVars>>

\* data.message || 'Failed to get response'
QueryErrorMessage(m) == IF m = "undefined" THEN "Failed to get response" ELSE m

\* the catch block: setResponses(null)
QueryFailureClearsResponses == responses' = None

\* another status: throw new Error(data.message || ...), catch, setLoading(false)
QueryNotSuccess(k, m) ==
    /\ k \in 1..Len(queries)
    /\ chatError' = QueryErrorMessage(m)
    /\ QueryFailureClearsResponses
    /\ chatLoading' = FALSE
    /\ queries' = RemoveAt(queries, k)
    /\ chatGot' = Append(chatGot, "notsuccess")
    /\ UNCHANGED <<query, chatSelectedContext, asked>>
    /\ UNCHANGED <<upVars, editVars, visVars, selVars, genVars>>

\* fetch or response.json() rejects with an Error m: setError(error.message)
QueryThrow(k, m) ==
    /\ k \in 1..Len(queries)
    /\ chatError' = m
    /\ QueryFailureClearsResponses
    /\ chatLoading' = FALSE
    /\ queries' = RemoveAt(queries, k)
    /\ chatGot' = Append(chatGot, "throw")
    /\ UNCHANGED <<query, chatSelectedContext, asked>>
    /\ UNCHANGED <<upVars, editVars, visVars, selVars, genVars>>

NextChat ==
    \/ \E c \in Contexts \cup {NULL} : ChatOnContextChange(c)
    \/ \E t \in Texts : SetQuery(t)
    \/ AskButtonClick
    \/ HandleKeyPress
    \/ \E k \in 1..MaxQueries : QuerySuccess(k)
    \/ \E k \in 1..MaxQueries, m \in QueryMessages : QueryNotSuccess(k, m)
    \/ \E k \in 1..MaxQueries, m \in ThrowMessages : QueryThrow(k, m)

(* ======================= GeneratedContents page ======================= *)

\* the ids of the Tabs: the first two of the six, the first is the initial tab
GenTabs == {"kv_store_full_docs.json", "kv_store_text_chunks.json"}

\* data.content of a file answer: an empty text, or a JSON text
GenBodies == {"", "{}"}

\* data.files of a list answer
GenListings ==
    {<<>>, <<"kv_store_full_docs.json">>,
     <<"kv_store_full_docs.json", "kv_store_text_chunks.json">>}

ListMessages == {"Failed to fetch file list"}

\* `Failed to fetch ${filename}`
FileMessage(filename) == "Failed to fetch " \o filename

InitGenerated ==
    /\ genSelectedContext = NULL
    /\ availableFiles = <<>>
    /\ fileContents = [f \in GenTabs |-> None]
    /\ loadingFile = NULL
    /\ genError = NULL
    /\ activeTabId = "kv_store_full_docs.json"
    /\ listReqs = <<>>
    /\ fileReqs = <<>>

\* <ContextSelector onContextChange={setSelectedContext}/> and the effect on
\* [selectedContext]: a non-null selection starts fetchAvailableFiles, nothing
\* is cleared
GenOnContextChange(c) ==
    /\ c # genSelectedContext
    /\ c # NULL => Len(listReqs) < MaxListLoads
    /\ genSelectedContext' = c
    /\ listReqs' = IF c # NULL THEN Append(listReqs, c) ELSE listReqs
    /\ UNCHANGED <<availableFiles, fileContents, loadingFile, genError, activeTabId, fileReqs>>
    /\ UNCHANGED <<upVars, editVars, visVars, selVars, chatVars>>

\* fetchAvailableFiles after its awaits, response.ok
FetchAvailableFilesOk(k, listing) ==
    /\ k \in 1..Len(listReqs)
    /\ availableFiles' = listing
    /\ genError' = NULL
    /\ listReqs' = RemoveAt(listReqs, k)
    /\ UNCHANGED <<genSelectedContext, fileContents, loadingFile, activeTabId, fileReqs>>
    /\ UNCHANGED <<upVars, editVars, visVars, selVars, chatVars>>

\* fetchAvailableFiles, catch: !response.ok or a rejected fetch
FetchAvailableFilesFail(k, m) ==
    /\ k \in 1..Len(listReqs)
    /\ genError' = m
    /\ availableFiles' = <<>>
    /\ listReqs' = RemoveAt(listReqs, k)
    /\ UNCHANGED <<genSelectedContext, fileContents, loadingFile, activeTabId, fileReqs>>
    /\ UNCHANGED <<upVars, editVars, visVars, selVars, chatVars>>

\* if (fileContents[filename]) : an entry with a non-empty text
Cached(filename) ==
    /\ fileContents[filename] # None
    /\ fileContents[filename][1].content # ""

\* handleTabChange, with fetchFileContent up to its await: the Tabs report a
\* change to another tab whether or not a context is selected
HandleTabChange(filename) ==
    /\ filename \in GenTabs
    /\ filename # activeTabId
    /\ activeTabId' = filename
    /\ IF Cached(filename)
         THEN UNCHANGED <<loadingFile, fileReqs>>
         ELSE /\ Len(fileReqs) < MaxFileLoads
              /\ loadingFile' = filename
              /\ fileReqs' = Append(fileReqs, [ctx |-> genSelectedContext, file |-> filename])
    /\ UNCHANGED <<genSelectedContext, availableFiles, fileContents, genError, listReqs>>
    /\ UNCHANGED <<upVars, editVars, visVars, selVars, chatVars>>

\* fetchFileContent after its awaits, response.ok: the functional update adds
\* the entry to whatever the cache holds by then; no context is named "null"
FetchFileContentOk(k, content) ==
    /\ k \in 1..Len(fileReqs)
    /\ fileReqs[k].ctx # NULL
    /\ fileContents' = [fileContents EXCEPT
                            ![fileReqs[k].file] = Some([ctx |-> fileReqs[k].ctx,
                                                        content |-> content])]
    /\ genError' = NULL
    /\ loadingFile' = NULL
    /\ fileReqs' = RemoveAt(fileReqs, k)
    /\ UNCHANGED <<genSelectedContext, availableFiles, activeTabId, listReqs>>
    /\ UNCHANGED <<upVars, editVars, visVars, selVars, chatVars>>

\* fetchFileContent, catch and finally: !response.ok or a rejected fetch
FetchFileContentFail(k, m) ==
    /\ k \in 1..Len(fileReqs)
    /\ m \in {FileMessage(fileReqs[k].file)} \cup ThrowMessages
    /\ genError' = m
    /\ loadingFile' = NULL
    /\ fileReqs' = RemoveAt(fileReqs, k)
    /\ UNCHANGED <<genSelectedContext, availableFiles, fileContents, activeTabId, listReqs>>
    /\ UNCHANGED <<upVars, editVars, visVars, selVars, chatVars>>

GenMessages == {FileMessage(f) : f \in GenTabs} \cup ThrowMessages

NextGenerated ==
    \/ \E c \in Contexts \cup {NULL} : GenOnContextChange(c)
    \/ \E k \in 1..MaxListLoads, listing \in GenListings : FetchAvailableFilesOk(k, listing)
    \/ \E k \in 1..MaxListLoads, m \in ListMessages \cup ThrowMessages :
            FetchAvailableFilesFail(k, m)
    \/ \E f \in GenTabs : HandleTabChange(f)
    \/ \E k \in 1..MaxFileLoads, content \in GenBodies : FetchFileContentOk(k, content)
    \/ \E k \in 1..MaxFileLoads, m \in GenMessages : FetchFileContentFail(k, m)

(* ======================= Visualize page ======================= *)

\* the effect on [selectedContext] ran once at mount with selectedContext null:
\* setGraphUrl(null), and its cleanup saw graphUrl = null
InitVisualize ==
    /\ visLoading = FALSE
    /\ visError = NULL
    /\ graphUrl = 0
    /\ visSelectedContext = NULL
    /\ regenerating = FALSE
    /\ mounted = TRUE
    /\ cleanupUrl = 0
    /\ visLoads = <<>>
    /\ urlCtx = <<>>
    /\ revoked = {}

\* the cleanup of the last effect run: if (graphUrl) URL.revokeObjectURL(graphUrl),
\* with the graphUrl of the render that effect run belongs to
EffectCleanup == IF cleanupUrl # 0 THEN revoked \cup {cleanupUrl} ELSE revoked

\* loadGraph up to its await: setLoading(true), setError(null), fetch
LoadGraphStart(c, force) ==
    /\ Len(visLoads) < MaxGraphLoads
    /\ visLoading' = TRUE
    /\ visError' = NULL
    /\ visLoads' = Append(visLoads, [ctx |-> c, force |-> force])

\* onContextChange={setSelectedContext} with a changed value, the cleanup of the
\* previous effect run, and the effect: loadGraph(false), or setGraphUrl(null)
VisOnContextChange(c) ==
    /\ mounted
    /\ c # visSelectedContext
    /\ visSelectedContext' = c
    /\ revoked' = EffectCleanup
    /\ cleanupUrl' = graphUrl
    /\ IF c # NULL
       THEN /\ LoadGraphStart(c, FALSE)
            /\ UNCHANGED graphUrl
       ELSE /\ graphUrl' = 0
            /\ UNCHANGED <<visLoading, visError, visLoads>>
    /\ UNCHANGED <<regenerating, mounted, urlCtx>>
    /\ UNCHANGED <<upVars, editVars, selVars, chatVars, genVars>>

\* the Regenerate button: loading={regenerating}, disabled={!selectedContext || loading}
HandleRegenerate ==
    /\ mounted
    /\ ~regenerating /\ visSelectedContext # NULL /\ ~visLoading
    /\ regenerating' = TRUE
    /\ LoadGraphStart(visSelectedContext, TRUE)
    /\ UNCHANGED <<graphUrl, visSelectedContext, mounted, cleanupUrl, urlCtx, revoked>>
    /\ UNCHANGED <<upVars, editVars, selVars, chatVars, genVars>>

\* loadGraph after its await, response.ok: a new object URL is minted and installed;
\* the setters of an unmounted component do nothing
LoadGraphOk(k) ==
    /\ k \in 1..Len(visLoads)
    /\ Len(urlCtx) < MaxUrls
    /\ urlCtx' = Append(urlCtx, visLoads[k].ctx)
    /\ visLoads' = RemoveAt(visLoads, k)
    /\ IF mounted
       THEN /\ graphUrl' = Len(urlCtx) + 1
            /\ visLoading' = FALSE
            /\ regenerating' = FALSE
       ELSE UNCHANGED <<graphUrl, visLoading, regenerating>>
    /\ UNCHANGED <<visError, visSelectedContext, mounted, cleanupUrl, revoked>>
    /\ UNCHANGED <<upVars, editVars, selVars, chatVars, genVars>>

\* !response.ok, or fetch / blob() rejects: setError(error.message)
GraphErrors == {"Failed to generate graph visualization", "Failed to fetch"}

LoadGraphFail(k, m) ==
    /\ k \in 1..Len(visLoads)
    /\ visLoads' = RemoveAt(visLoads, k)
    /\ IF mounted
       THEN /\ visError' = m
            /\ visLoading' = FALSE
            /\ regenerating' = FALSE
       ELSE UNCHANGED <<visError, visLoading, regenerating>>
    /\ UNCHANGED <<graphUrl, visSelectedContext, mounted, cleanupUrl, urlCtx, revoked>>
    /\ UNCHANGED <<upVars, editVars, selVars, chatVars, genVars>>

\* the page is left: the cleanup of the last effect run is called
VisUnmount ==
    /\ mounted
    /\ mounted' = FALSE
    /\ revoked' = EffectCleanup
    /\ UNCHANGED <<visLoading, visError, graphUrl, visSelectedContext, regenerating,
                   cleanupUrl, visLoads, urlCtx>>
    /\ UNCHANGED <<upVars, editVars, selVars, chatVars, genVars>>

\* what the iframe shows (0: nothing, the placeholder or the spinner)
Displayed ==
    IF visSelectedContext # NULL /\ ~visLoading /\ graphUrl # 0 THEN graphUrl ELSE 0

\* created and not revoked
LiveUrls == (1..Len(urlCtx)) \ revoked

NextVisualize ==
    \/ \E c \in Contexts \cup {NULL} : VisOnContextChange(c)
    \/ HandleRegenerate
    \/ \E k \in 1..MaxGraphLoads : LoadGraphOk(k)
    \/ \E k \in 1..MaxGraphLoads, m \in GraphErrors : LoadGraphFail(k, m)
    \/ VisUnmount

(* ======================= ContextSelector ======================= *)

\* the contexts the backend holds when the session starts
InitialContexts == <<"ctxA", "ctxB">>
\* the id the backend gives the context of the n-th POST /contexts
NewContextId(n) == "new" \o ToString(n)
\* the JSON body of a non-2xx answer, {detail: ...}: an object without id or name
ErrorBody == "errorBody"

\* after the first render and the mount effect: loadContexts is awaiting GET /contexts
InitSelector ==
    /\ contexts = <<>>
    /\ selSelectedContext = NULL
    /\ pageSelectedContext = NULL
    /\ backend = InitialContexts
    /\ listLoad = TRUE
    /\ creates = <<>>
    /\ deletes = <<>>
    /\ created = 0
    /\ isCreateModalVisible = FALSE
    /\ newContextName = <<>>
    /\ selLoading = FALSE
    /\ lastConfirm = "none"

\* contexts.filter(c => c.id !== id)
WithoutContext(list, id) ==
    LET Keep(c) == c # id IN SelectSeq(list, Keep)

\* loadContexts after its await: setContexts(data.contexts)
LoadContextsOk ==
    /\ listLoad
    /\ listLoad' = FALSE
    /\ contexts' = backend
    /\ UNCHANGED <<selSelectedContext, pageSelectedContext, backend, creates, deletes,
                   created, isCreateModalVisible, newContextName, selLoading, lastConfirm>>
    /\ UNCHANGED <<upVars, editVars, visVars, chatVars, genVars>>

\* fetch or json() rejects: console.error only
LoadContextsThrow ==
    /\ listLoad
    /\ listLoad' = FALSE
    /\ UNCHANGED <<contexts, selSelectedContext, pageSelectedContext, backend, creates,
                   deletes, created, isCreateModalVisible, newContextName, selLoading,
                   lastConfirm>>
    /\ UNCHANGED <<upVars, editVars, visVars, chatVars, genVars>>

\* <Modal visible={isCreateModalVisible}>: an open modal takes the clicks of the page
ModalCoversPage == isCreateModalVisible

\* detail.selectedOption?.value || null : an entry without id selects null
OptionValue(c) == IF c = ErrorBody THEN NULL ELSE c

\* Faulty variant: the Select's onChange keeps the choice to itself
SelectorOnChangeUnreported(c) ==
    /\ ~ModalCoversPage
    /\ c \in Range(contexts)
    /\ OptionValue(c) # selSelectedContext
    /\ selSelectedContext' = OptionValue(c)
    /\ UNCHANGED <<contexts, pageSelectedContext, backend, listLoad, creates, deletes, created,
                   isCreateModalVisible, newContextName, selLoading, lastConfirm>>
    /\ UNCHANGED <<upVars, editVars, visVars, chatVars, genVars>>

\* the Select's onChange with one of the listed options
SelectorOnChange(c) ==
    /\ ~ModalCoversPage
    /\ c \in Range(contexts)
    /\ OptionValue(c) # selSelectedContext
    /\ selSelectedContext' = OptionValue(c)
    /\ pageSelectedContext' = OptionValue(c)
    /\ UNCHANGED <<contexts, backend, listLoad, creates, deletes, created,
                   isCreateModalVisible, newContextName, selLoading, lastConfirm>>
    /\ UNCHANGED <<upVars, editVars, visVars, chatVars, genVars>>

\* the "Create New Context" button
OpenCreateModal ==
    /\ ~isCreateModalVisible
    /\ isCreateModalVisible' = TRUE
    /\ UNCHANGED <<contexts, selSelectedContext, pageSelectedContext, backend, listLoad,
                   creates, deletes, created, newContextName, selLoading, lastConfirm>>
    /\ UNCHANGED <<upVars, editVars, visVars, chatVars, genVars>>

\* Cancel, or the modal's onDismiss
DismissCreateModal ==
    /\ isCreateModalVisible
    /\ isCreateModalVisible' = FALSE
    /\ UNCHANGED <<contexts, selSelectedContext, pageSelectedContext, backend, listLoad,
                   creates, deletes, created, newContextName, selLoading, lastConfirm>>
    /\ UNCHANGED <<upVars, editVars, visVars, chatVars, genVars>>

SetNewContextName(t) ==
    /\ isCreateModalVisible
    /\ t # newContextName
    /\ newContextName' = t
    /\ UNCHANGED <<contexts, selSelectedContext, pageSelectedContext, backend, listLoad,
                   creates, deletes, created, isCreateModalVisible, selLoading, lastConfirm>>
    /\ UNCHANGED <<upVars, editVars, visVars, chatVars, genVars>>

\* the Create button (loading={loading}, disabled={!newContextName.trim()}):
\* handleCreateContext up to its await
HandleCreateContextStart ==
    /\ isCreateModalVisible /\ ~selLoading /\ Trim(newContextName) # <<>>
    /\ created < MaxCreates
    /\ selLoading' = TRUE
    /\ created' = created + 1
    /\ creates' = Append(creates, [contexts |-> contexts, n |-> created + 1])
    /\ UNCHANGED <<contexts, selSelectedContext, pageSelectedContext, backend, listLoad,
                   deletes, isCreateModalVisible, newContextName, lastConfirm>>
    /\ UNCHANGED <<upVars, editVars, visVars, chatVars, genVars>>

\* handleCreateContext after its await, any JSON answer:
\* setContexts([...contexts, newContext]) with the contexts of the handler's render
CreateContextApply(k, body) ==
    /\ contexts' = Append(creates[k].contexts, body)
    /\ isCreateModalVisible' = FALSE
    /\ newContextName' = <<>>
    /\ selLoading' = FALSE
    /\ creates' = RemoveAt(creates, k)

\* the backend created the context
CreateContextOk(k) ==
    /\ k \in 1..Len(creates)
    /\ backend' = Append(backend, NewContextId(creates[k].n))
    /\ CreateContextApply(k, NewContextId(creates[k].n))
    /\ UNCHANGED <<selSelectedContext, pageSelectedContext, listLoad, deletes, created,
                   lastConfirm>>
    /\ UNCHANGED <<upVars, editVars, visVars, chatVars, genVars>>

\* the backend refused with a JSON error body (response.ok is not looked at)
CreateContextNotOk(k) ==
    /\ k \in 1..Len(creates)
    /\ CreateContextApply(k, ErrorBody)
    /\ UNCHANGED <<selSelectedContext, pageSelectedContext, backend, listLoad, deletes,
                   created, lastConfirm>>
    /\ UNCHANGED <<upVars, editVars, visVars, chatVars, genVars>>

\* fetch or json() rejects: console.error, setLoading(false)
CreateContextThrow(k) ==
    /\ k \in 1..Len(creates)
    /\ selLoading' = FALSE
    /\ creates' = RemoveAt(creates, k)
    /\ UNCHANGED <<contexts, selSelectedContext, pageSelectedContext, backend, listLoad,
                   deletes, created, isCreateModalVisible, newContextName, lastConfirm>>
    /\ UNCHANGED <<upVars, editVars, visVars, chatVars, genVars>>

\* the Delete button (rendered only with a selection), window.confirm answered no
HandleDeleteContextDeclined ==
    /\ ~ModalCoversPage
    /\ selSelectedContext # NULL
    /\ lastConfirm # "no"
    /\ lastConfirm' = "no"
    /\ UNCHANGED <<contexts, selSelectedContext, pageSelectedContext, backend, listLoad,
                   creates, deletes, created, isCreateModalVisible, newContextName,
                   selLoading>>
    /\ UNCHANGED <<upVars, editVars, visVars, chatVars, genVars>>

\* window.confirm answered yes: handleDeleteContext up to its await
HandleDeleteContextStart ==
    /\ ~ModalCoversPage
    /\ selSelectedContext # NULL
    /\ Len(deletes) < MaxDeletes
    /\ lastConfirm' = "yes"
    /\ deletes' = Append(deletes, [contexts |-> contexts, id |-> selSelectedContext])
    /\ UNCHANGED <<contexts, selSelectedContext, pageSelectedContext, backend, listLoad,
                   creates, created, isCreateModalVisible, newContextName, selLoading>>
    /\ UNCHANGED <<upVars, editVars, visVars, chatVars, genVars>>

\* handleDeleteContext after its await, response.ok:
\* setContexts(contexts.filter(...)), setSelectedContext(null), onContextChange(null),
\* with the contexts and selectedContext of the handler's render
DeleteContextOk(k) ==
    /\ k \in 1..Len(deletes)
    /\ deletes[k].id \in Range(backend)
    /\ backend' = WithoutContext(backend, deletes[k].id)
    /\ contexts' = WithoutContext(deletes[k].contexts, deletes[k].id)
    /\ selSelectedContext' = NULL
    /\ pageSelectedContext' = NULL
    /\ deletes' = RemoveAt(deletes, k)
    /\ UNCHANGED <<listLoad, creates, created, isCreateModalVisible, newContextName,
                   selLoading, lastConfirm>>
    /\ UNCHANGED <<upVars, editVars, visVars, chatVars, genVars>>

\* Faulty variant: a failed delete drops the selection all the same
DeleteContextFailDropsSelection(k) ==
    /\ k \in 1..Len(deletes)
    /\ deletes' = RemoveAt(deletes, k)
    /\ selSelectedContext' = NULL
    /\ pageSelectedContext' = NULL
    /\ UNCHANGED <<contexts, backend, listLoad, creates, created, isCreateModalVisible,
                   newContextName, selLoading, lastConfirm>>
    /\ UNCHANGED <<upVars, editVars, visVars, chatVars, genVars>>

\* !response.ok, or fetch rejects: console.error only
DeleteContextFail(k) ==
    /\ k \in 1..Len(deletes)
    /\ deletes' = RemoveAt(deletes, k)
    /\ UNCHANGED <<contexts, selSelectedContext, pageSelectedContext, backend, listLoad,
                   creates, created, isCreateModalVisible, newContextName, selLoading,
                   lastConfirm>>
    /\ UNCHANGED <<upVars, editVars, visVars, chatVars, genVars>>

NextSelector ==
    \/ LoadContextsOk
    \/ LoadContextsThrow
    \/ \E c \in Contexts \cup {NewContextId(n) : n \in 1..MaxCreates} \cup {ErrorBody} :
            SelectorOnChange(c)
    \/ OpenCreateModal
    \/ DismissCreateModal
    \/ \E t \in Texts : SetNewContextName(t)
    \/ HandleCreateContextStart
    \/ \E k \in 1..MaxCreates : CreateContextOk(k)
    \/ \E k \in 1..MaxCreates : CreateContextNotOk(k)
    \/ \E k \in 1..MaxCreates : CreateContextThrow(k)
    \/ HandleDeleteContextDeclined
    \/ HandleDeleteContextStart
    \/ \E k \in 1..MaxDeletes : DeleteContextOk(k)
    \/ \E k \in 1..MaxDeletes : DeleteContextFail(k)

\* the Upload page with the file tab in use: selection, variable load, file batch
NextUpload ==
    \/ \E c \in Contexts \cup {NULL} : UploadOnContextChange(c)
    \/ \E k \in 1..MaxVarLoads : FetchVariablesOk(k)
    \/ \E k \in 1..MaxVarLoads : FetchVariablesThrow(k)
    \/ \E fs \in FileLists : SetFiles(fs)
    \/ HandleFileUploadStart
    \/ \E r \in 1..MaxRuns : HandleFileUploadOk(r)
    \/ \E r \in 1..MaxRuns, d \in Details : HandleFileUploadNotOk(r, d)
    \/ \E r \in 1..MaxRuns, m \in ThrowMessages : HandleFileUploadThrow(r, m)

\* the text tab
NextUploadText ==
    \/ \E t \in Texts : SetText(t)
    \/ HandleTextUploadStart
    \/ \E r \in 1..MaxRuns, a \in TextAnswers : HandleTextUploadAnswer(r, a)
    \/ \E r \in 1..MaxRuns : HandleTextUploadThrow(r)

\* every response of a running file batch arrives: a fetch settles
FileResponse ==
    \/ \E r \in 1..MaxRuns : HandleFileUploadOk(r)
    \/ \E r \in 1..MaxRuns, d \in Details : HandleFileUploadNotOk(r, d)
    \/ \E r \in 1..MaxRuns, m \in ThrowMessages : HandleFileUploadThrow(r, m)

\* the prompt-variable editor at work on its tag buffer
NextTagEdit ==
    \/ \E c \in Contexts \cup {NULL} : UploadOnContextChange(c)
    \/ \E k \in 1..MaxVarLoads : FetchVariablesOk(k)
    \/ \E name \in {"entity_types", "language"} : SelectVariable(name)
    \/ \E t \in TagTexts : SetNewTagInput(t)
    \/ HandleAddTag
    \/ \E index \in 1..(Cardinality(TagTexts) + 1) : RemoveTag(index)

\* the prompt-variable editor committing its buffers
NextCommit ==
    \/ \E c \in Contexts \cup {NULL} : UploadOnContextChange(c)
    \/ \E k \in 1..MaxVarLoads : FetchVariablesOk(k)
    \/ \E name \in {"entity_types", "language"} : SelectVariable(name)
    \/ \E t \in Texts : SetVariableValue(t)
    \/ HandleVariableChangeStart
    \/ \E k \in 1..MaxUpdates : UpdateOk(k)
    \/ \E k \in 1..MaxUpdates, d \in UpdateDetails : UpdateNotOk(k, d)
    \/ \E k \in 1..MaxUpdates, m \in ThrowMessages : UpdateThrow(k, m)

Init ==
    /\ InitUpload /\ InitEditor /\ InitVisualize /\ InitSelector /\ InitChat
    /\ InitGenerated

SpecUpload == Init /\ [][NextUpload]_vars
SpecUploadAll == Init /\ [][NextUpload \/ NextUploadText]_vars
FairSpecUpload == SpecUpload /\ WF_vars(FileResponse)
SpecVisualize == Init /\ [][NextVisualize]_vars
SpecSelector == Init /\ [][NextSelector]_vars
SpecTagEdit == Init /\ [][NextTagEdit]_vars
SpecCommit == Init /\ [][NextCommit]_vars
SpecChat == Init /\ [][NextChat]_vars
SpecGenerated == Init /\ [][NextGenerated]_vars
\* the Upload page with the text tab in use
SpecUploadText ==
    Init /\ [][(\E c \in Contexts \cup {NULL} : UploadOnContextChange(c)) \/ NextUploadText]_vars

(* ======================= properties: file batch ======================= *)

IsPrefix(s, t) == Len(s) <= Len(t) /\ s = SubSeq(t, 1, Len(s))
\* the running file-batch handlers, each awaiting one /insert_file response
FileRuns == {r \in 1..Len(runs) : runs[r].kind = "file"}
FileBatchRunning == FileRuns # {}

\* C1: when file k is the first whose /insert_file response is non-success,
\* k-1 requests were issued before it and all succeeded, the request for file k
\* was issued, none is issued for files k+1..N (in every later state of the
\* aborted batch exactly the first k files have been sent), and the error
\* message set by the abort contains the name of file k.
C1_AbortAtFirstFailure ==
    /\ [](got # <<>> /\ got[Len(got)] = "notok" =>
            LET k == Len(got)
            IN  /\ k <= Len(batch)
                /\ sent = SubSeq(batch, 1, k)
                /\ \A j \in 1..(k - 1) : got[j] = "ok"
                /\ ~FileBatchRunning)
    /\ [][got' = Append(got, "notok") =>
            /\ isError'
            /\ batch[Len(got')] \in Range(message')]_vars

\* file 1 of a two-file batch failed: file 2 was never sent, the message names file 1
C1_Witness ==
    /\ Len(batch) = 2 /\ got = <<"notok">> /\ sent = <<batch[1]>>
    /\ isError /\ batch[1] \in Range(message) /\ ~FileBatchRunning

\* C2: while the request for item i (the i-th request of the batch) is in
\* flight, uploadProgress is {total: N, completed: i-1, currentFile: name of item i}.
C2_ProgressAtSend ==
    FileBatchRunning =>
        LET i == Len(sent)
        IN  /\ i \in 1..Len(batch)
            /\ uploadProgress = Some([total |-> Len(batch), completed |-> i - 1,
                                       currentFile |-> batch[i]])

\* the second request of a two-file batch is in flight
C2_Witness ==
    /\ FileBatchRunning /\ Len(batch) = 2 /\ Len(sent) = 2
    /\ uploadProgress = Some([total |-> 2, completed |-> 1, currentFile |-> batch[2]])

\* C3: at most one /insert_file request is in flight, the requests issued are a
\* prefix of the input list, and request i+1 is issued only after response i.
C3_SequentialInOrder ==
    /\ Cardinality(FileRuns) <= 1
    /\ IsPrefix(sent, batch)
    /\ Len(sent) = Len(got) + Cardinality(FileRuns)

\* the second file is on its way after the first was answered
C3_Witness ==
    /\ Cardinality(FileRuns) = 1 /\ Len(batch) = 2
    /\ sent = batch /\ got = <<"ok">>

\* C4: every started batch ends; when it ends (success, non-success response or
\* a throw) uploadProgress is null and loading false; uploadProgress is non-null
\* only while a batch runs.
C4_ProgressCleared ==
    /\ [](uploadProgress # None => FileBatchRunning)
    /\ [][FileBatchRunning /\ ~FileBatchRunning' =>
            uploadProgress' = None /\ loading' = FALSE]_vars
    /\ (FileBatchRunning ~> ~FileBatchRunning)

\* a batch ended by a throw on its second file, progress cleared
C4_Witness ==
    /\ got = <<"ok", "throw">> /\ ~FileBatchRunning
    /\ uploadProgress = None /\ ~loading

(* ======================= properties: prompt variables ======================= *)

\* C5: once no variable load is in flight and the load of the current selection
\* was applied, variableOptions is the list of the selected context; a response
\* is applied only while the context it was requested for is still selected.
C5_NoCrossContextBleed ==
    /\ [](varLoads = <<>> /\ selectedContext # NULL /\ ownLoadDone =>
            variableOptions = BackendVars(selectedContext))
    /\ [][variableOptions' # variableOptions =>
            /\ selectedContext' # NULL
            /\ variableOptions' = BackendVars(selectedContext')]_vars

(* ======================= properties: graph ======================= *)

\* C6: a /visualize response is installed as graphUrl only if the context it was
\* requested for is the selected one; graphUrl never refers to a graph fetched
\* for another context than the selected one.
C6_StaleGraphDiscarded ==
    /\ [][graphUrl' # graphUrl /\ graphUrl' # 0 =>
            urlCtx'[graphUrl'] = visSelectedContext']_vars
    /\ [](graphUrl # 0 => urlCtx[graphUrl] = visSelectedContext)

\* a regenerate response is applied by this step
RegenerateApplied ==
    /\ Len(urlCtx') = Len(urlCtx) + 1
    /\ \E k \in 1..Len(visLoads) : visLoads[k].force /\ visLoads' = RemoveAt(visLoads, k)

\* C7: at most one object URL of the instance is live; after a successful
\* regenerate exactly one is, and the URL shown before has been revoked.
C7_AtMostOneLiveUrl ==
    /\ [](Cardinality(LiveUrls) <= 1)
    /\ [][RegenerateApplied =>
            /\ LiveUrls' = {graphUrl'}
            /\ graphUrl # 0 => graphUrl \in revoked']_vars

\* C8: once the view is unmounted no object URL it minted is live.
C8_AllRevokedOnUnmount == ~mounted => LiveUrls = {}

\* C9: when the selection changes, the graph URL held at that moment is released,
\* and it is never the displayed source afterwards (cleanupUrl is the graphUrl
\* of the moment of the last change).
C9_PreviousGraphDiscarded ==
    /\ [][/\ visSelectedContext # NULL /\ visSelectedContext' # NULL
           /\ visSelectedContext' # visSelectedContext /\ graphUrl # 0
           => graphUrl \in revoked']_vars
    /\ [](Displayed # 0 => Displayed # cleanupUrl)


(* ======================= properties: context deletion ======================= *)

\* the DELETE of request k was answered with success by this step
DeleteSucceeded(k) ==
    /\ deletes' = RemoveAt(deletes, k)
    /\ backend' = WithoutContext(backend, deletes[k].id)
    /\ backend' # backend

\* C10: when a confirmed DELETE is answered with success, the deleted context
\* leaves the local list, every other listed context is kept, the selection
\* becomes null and the page is told null; a DELETE is issued only with a
\* selection and a confirmation.
C10_DeleteSuccess ==
    /\ [][\A k \in 1..Len(deletes) : DeleteSucceeded(k) =>
            /\ deletes[k].id \notin Range(contexts')
            /\ Range(contexts) \ {deletes[k].id} \subseteq Range(contexts')
            /\ selSelectedContext' = NULL
            /\ pageSelectedContext' = NULL]_vars
    /\ [][Len(deletes') > Len(deletes) =>
            selSelectedContext # NULL /\ lastConfirm' = "yes"]_vars

(* ======================= properties: null selection ======================= *)

\* C11: when the selection of a page becomes null, the page clears its
\* per-context state: Upload its variable list, selected variable, edit buffers
\* and pending text and files; Chat its results; Visualize its graph.
C11_NullSelectionClears ==
    /\ [][selectedContext # NULL /\ selectedContext' = NULL =>
            /\ variableOptions' = <<>>
            /\ selectedVariable' = NULL /\ variableValue' = <<>> /\ tags' = <<>>
            /\ text' = <<>> /\ files' = None]_vars
    /\ [][chatSelectedContext # NULL /\ chatSelectedContext' = NULL =>
            responses' = None]_vars
    /\ [][visSelectedContext # NULL /\ visSelectedContext' = NULL =>
            graphUrl' = 0]_vars

(* ======================= properties: Chat ======================= *)

\* the error texts handleSubmit can take from the backend or from its own fallbacks
QueryFailureTexts ==
    (QueryMessages \ {"undefined"})
        \cup {"Failed to get response", "An error occurred while processing your request"}

\* a /query request was answered by this step, and not with status "success"
QueryFailed ==
    \/ chatGot' = Append(chatGot, "notsuccess")
    \/ chatGot' = Append(chatGot, "throw")

\* C12: when a /query answer is not "success" or the request fails, responses is
\* null, loading is false and error is the backend message or the generic
\* fallback; responses is only ever the complete data object of a "success" answer.
C12_QueryFailureHandling ==
    /\ [][QueryFailed =>
            /\ responses' = None
            /\ chatLoading' = FALSE
            /\ chatError' \in QueryFailureTexts]_vars
    /\ [](responses # None =>
            \E c \in Contexts, q \in Texts : responses = Some(QueryData(c, q)))

\* C13: at most one /query request is in flight per Chat instance, and none is
\* issued while loading is true.
C13_NoReentrantQuery ==
    /\ [](Len(queries) <= 1)
    /\ [][Len(queries') > Len(queries) => ~chatLoading]_vars

(* ======================= properties: context creation ======================= *)

\* a POST /contexts request was answered by this step without a context being created
CreateFailed == Len(creates') < Len(creates) /\ backend' = backend

\* the POST /contexts request k was answered with the created context by this step
CreateSucceeded(k) ==
    /\ creates' = RemoveAt(creates, k)
    /\ backend' = Append(backend, NewContextId(creates[k].n))

\* C14: when POST /contexts fails (transport error or non-success answer), the
\* local list and the selection are what they were before; no entry is added.
C14_CreateFailureNoChange ==
    [][CreateFailed =>
            /\ contexts' = contexts
            /\ selSelectedContext' = selSelectedContext
            /\ pageSelectedContext' = pageSelectedContext]_vars

\* C15: when the answer of a successful POST /contexts is applied, the local list
\* becomes the list of that moment with the new context appended, and the
\* selection is unchanged.
C15_CreateAppends ==
    [][\A k \in 1..Len(creates) : CreateSucceeded(k) =>
            /\ contexts' = Append(contexts, NewContextId(creates[k].n))
            /\ selSelectedContext' = selSelectedContext
            /\ pageSelectedContext' = pageSelectedContext]_vars

(* ======================= properties: tag editor ======================= *)

\* tag buffers, those with repeated or padded entries included
TagBuffers == SeqsUpTo(TagTexts \ {<<>>}, MaxBuffer)

\* handleAddTag ran in this step (the input it takes was typed just before)
TagAdded == editOp'.op = "add" /\ editOp.op # "add"

\* what adding text to buffer gives according to the contract
AddTagContract(buffer, t) ==
    IF Trim(t) = <<>> \/ Trim(t) \in Range(buffer)
    THEN buffer
    ELSE buffer \o <<Trim(t)>>

\* C16: if the trimmed text is empty or equals an element of the buffer, adding
\* leaves the buffer unchanged, otherwise it appends the trimmed text; adding the
\* same text twice equals adding it once; within an edit the buffer grows only
\* by a non-blank, non-duplicate add and shrinks only by a positional removal.
C16_TagAdd ==
    /\ \A b \in TagBuffers, t \in TagTexts :
            /\ AddTag(b, t) = AddTagContract(b, t)
            /\ AddTag(AddTag(b, t), t) = AddTag(b, t)
    /\ [](\A t \in TagTexts :
            /\ AddTag(tags, t) = AddTagContract(tags, t)
            /\ AddTag(AddTag(tags, t), t) = AddTag(tags, t))
    /\ [][TagAdded => tags' = AddTagContract(tags, newTagInput)]_vars
    /\ [][Len(tags') > Len(tags) /\ editOp'.op # "seed" =>
            /\ TagAdded
            /\ Trim(newTagInput) # <<>> /\ Trim(newTagInput) \notin Range(tags)
            /\ Len(tags') = Len(tags) + 1]_vars
    /\ [][Len(tags') < Len(tags) /\ editOp'.op # "seed" =>
            /\ editOp'.op = "remove"
            /\ \E index \in 1..Len(tags) : tags' = RemoveAt(tags, index)]_vars

\* a padded text was added to a seeded buffer: its trimmed form is the new last tag
C16_Witness ==
    /\ editOp = [op |-> "add", input |-> <<" ", "x">>]
    /\ Len(tags) = 2 /\ tags[2] = <<"x">>

(* ======================= properties: variable commit ======================= *)

\* a POST /update_prompt request was answered by this step: with success, or not
CommitSucceeded == Len(updates') < Len(updates) /\ updGot'[1].outcome = "ok"
CommitFailed == Len(updates') < Len(updates) /\ updGot'[1].outcome # "ok"

\* the messages a failed commit may show: the backend's detail, or a generic text
CommitFailureMessages ==
    {<<d>> : d \in UpdateDetails \ {"undefined"}}
        \cup {<<"Failed to update variable">>, <<"Error updating variable">>}

\* C17: after a success answer of /update_prompt the committed variable's
\* currentValue in the local variable list equals the submitted buffer.
C17_CommitUpdatesLocal ==
    [][CommitSucceeded =>
            LET u == updGot'[1].req
                local == FindVariable(variableOptions', u.variable)
            IN  local # None /\ local[1].currentValue = u.value]_vars

\* C18: when the selected context changes, no edit stays in progress unless its
\* buffers were seeded anew under the new selection; a commit never sends to
\* the selected context buffers that were seeded or edited under another one.
C18_ContextChangeResetsEdit ==
    /\ [][selectedContext' # selectedContext =>
            selectedVariable' = NULL \/ bufferCtx' = selectedContext']_vars
    /\ [][Len(updates') > Len(updates) => bufferCtx = selectedContext]_vars

\* C19: when /update_prompt fails, the selected variable and both buffers are
\* unchanged, the error flag is set, and the message is the backend's detail
\* when present and a generic message otherwise.
C19_CommitFailureKeepsEdit ==
    [][CommitFailed =>
            /\ UNCHANGED <<selectedVariable, variableValue, tags>>
            /\ isError'
            /\ message' \in CommitFailureMessages]_vars

(* ======================= properties: text upload ======================= *)

\* a handleTextUpload run ended in this step
TextUploadEnded ==
    \E r \in 1..Len(runs) : runs[r].kind = "text" /\ runs' = RemoveAt(runs, r)

\* C20: the text input is cleared and a non-error message set only when the
\* backend accepted the text; on a non-success answer or a failed request the
\* error flag is set with a failure message and the input is unchanged; loading
\* returns to false in every case.
C20_TextUploadOutcome ==
    [][TextUploadEnded =>
            /\ loading' = FALSE
            /\ IF textGot' = "accepted"
               THEN text' = <<>> /\ ~isError' /\ message' # <<>>
               ELSE text' = text /\ isError' /\ message' # <<>>]_vars

(* ======================= properties: delete failure, selection ======================= *)

\* a DELETE /contexts/{id} request was answered by this step without a context
\* being deleted (non-success status, or the request failed)
DeleteFailed == Len(deletes') < Len(deletes) /\ backend' = backend

\* C21: when a DELETE fails, the local list and the selection are unchanged and
\* the owning page is not told of any selection change.
C21_DeleteFailureNoChange ==
    [][DeleteFailed =>
            /\ contexts' = contexts
            /\ selSelectedContext' = selSelectedContext
            /\ pageSelectedContext' = pageSelectedContext]_vars

\* a confirmed DELETE was answered and the backend still holds every context:
\* it failed, and the list and the selection are still there
C21_Witness ==
    /\ lastConfirm = "yes" /\ deletes = <<>> /\ backend = InitialContexts
    /\ contexts = InitialContexts
    /\ selSelectedContext = "ctxA" /\ pageSelectedContext = "ctxA"


\* the selection held by the selector or by the page differs after this step
SelectionChanged ==
    \/ selSelectedContext' # selSelectedContext
    \/ pageSelectedContext' # pageSelectedContext

\* this step is the Select's onChange taking one of the listed options
ChangedByOnChange ==
    /\ selSelectedContext' \in {OptionValue(c) : c \in Range(contexts)}
    /\ UNCHANGED <<contexts, backend, deletes, creates, listLoad>>

\* this step applies the success answer of a DELETE
ChangedByDelete ==
    /\ \E k \in 1..Len(deletes) : DeleteSucceeded(k)
    /\ selSelectedContext' = NULL

\* C22: the page's selected context id always equals the selector's; the two
\* change only together, and only through the selector's change handler or
\* through a successful delete.
C22_SelectionConsistent ==
    /\ [](pageSelectedContext = selSelectedContext)
    /\ [][SelectionChanged =>
            /\ selSelectedContext' # selSelectedContext
            /\ pageSelectedContext' # pageSelectedContext
            /\ pageSelectedContext' = selSelectedContext'
            /\ ChangedByOnChange \/ ChangedByDelete]_vars

\* ctxA was deleted with success (which cleared both selections) and ctxB was
\* picked in the Select afterwards
C22_Witness ==
    /\ "ctxA" \notin Range(backend) /\ "ctxA" \notin Range(contexts)
    /\ deletes = <<>>
    /\ selSelectedContext = "ctxB" /\ pageSelectedContext = "ctxB"


(* ======================= properties: generated-file cache ======================= *)

\* every cached entry was fetched from the path of the selected context
CacheOfCurrentContext ==
    \A f \in GenTabs :
        fileContents[f] # None => fileContents[f][1].ctx = genSelectedContext

\* this step is a change to tab f
TabChangedTo(f) == activeTabId # f /\ activeTabId' = f

\* this step issues the request for file f of the selected context
FetchIssued(f) ==
    fileReqs' = Append(fileReqs, [ctx |-> genSelectedContext, file |-> f])

\* C23: every entry of the fileContents cache was fetched for the currently
\* selected context, and a change to a tab whose name is cached under another
\* context fetches the file again instead of serving the cached entry.
C23_CacheOfCurrentContext ==
    /\ []CacheOfCurrentContext
    /\ [][\A f \in GenTabs :
            (/\ TabChangedTo(f)
             /\ fileContents[f] # None
             /\ fileContents[f][1].ctx # genSelectedContext) => FetchIssued(f)]_vars

====
